---- MODULE Spec2Model ----
(***************************************************************************)
(* Model of the chat assistant of src/assistant_bp.py: the diet store, the *)
(* session conversation history, the four chat scenarios of handle_chat,   *)
(* generate_diet_for_user, format_diet_string and the calorie target.      *)
(*                                                                         *)
(* JSON values coming back from the completion service are modelled by     *)
(* their shape: every value is a record with a kind field k, so that the   *)
(* Python tests the code applies (truthiness, isinstance, dict.get with a  *)
(* default, json.dumps, json.loads) can be computed on them.               *)
(* Cyrillic literals of the source are written in ASCII.                   *)
(***************************************************************************)
EXTENDS Integers, Sequences, FiniteSets, TLC

VARIABLES
    diets,          \* rows of the Diet table
    nextId,         \* next autoincrement primary key of the Diet table
    today,          \* date.today()
    users,          \* per user id: the User row and what the context holds
    chat_history,   \* per session: session['chat_history'] (key present, turns)
    sessionRefresh, \* deployment: the session cookie is rewritten on every request
    nreq,           \* number of chat requests handled
    last,           \* the request handled last and the response it got
    gen,            \* per user: the Generate calls of one day, for the claims
    fmt,            \* one run of format_diet_string, slot by slot
    calc,           \* one run of the calorie target computation
    txn,            \* the database transactions of two Generate requests in flight
    strk            \* one run of _calculate_consecutive_days

vars == <<diets, nextId, today, users, chat_history, sessionRefresh, nreq, last, gen, fmt, calc, txn, strk>>

\* The variables of the chat endpoints.
chatVars == <<diets, nextId, today, users, chat_history, sessionRefresh, nreq, last, gen>>

(* ------------------------------ bounds -------------------------------- *)

\* chat requests in one behaviour
MaxReq == 2
\* calendar days date.today() runs through
MaxDay == 2

(* --------------------------- JSON values ------------------------------ *)

Slots == <<"breakfast", "lunch", "dinner", "snack">>
SlotNames == {"breakfast", "lunch", "dinner", "snack"}
Totals == <<"total_kcal", "protein", "fat", "carbs">>
TotalNames == {"total_kcal", "protein", "fat", "carbs"}

\* An element of a slot list. d: the element is a JSON object; has: the keys
\* it carries among name, grams, kcal.
Item(d, has, name, grams, kcal) ==
    [d |-> d, has |-> has, name |-> name, grams |-> grams, kcal |-> kcal]

ItemA == Item(TRUE, {"name", "grams", "kcal"}, "Oatmeal", 250, 300)
ItemB == Item(TRUE, {"name", "grams", "kcal"}, "Egg", 55, 70)
ItemC == Item(TRUE, {"name", "grams", "kcal"}, "Chicken", 200, 330)
ItemNoName == Item(TRUE, {"kcal"}, "", 0, 120)
ItemBare == Item(TRUE, {}, "", 0, 0)
ItemScalar == Item(FALSE, {}, "", 0, 0)

\* The value found under a slot key of a diet_plan object.
\* k: "absent" (no such key), "null", "str" (a non-empty string), "list".
SlotVal(k, items) == [k |-> k, items |-> items]
SAbsent == SlotVal("absent", <<>>)
SNull == SlotVal("null", <<>>)
SStr == SlotVal("str", <<>>)
SList(items) == SlotVal("list", items)

\* The value found under a totals key. k: "absent", "null", "num", "str".
TotVal(k, n) == [k |-> k, n |-> n]
TAbsent == TotVal("absent", 0)
TNull == TotVal("null", 0)
TStr == TotVal("str", 0)
TNum(n) == TotVal("num", n)

\* A JSON object used as diet_plan. other: it has keys besides the eight.
Plan(b, l, d, s, kc, p, f, c, other) ==
    [breakfast |-> b, lunch |-> l, dinner |-> d, snack |-> s,
     total_kcal |-> kc, protein |-> p, fat |-> f, carbs |-> c, other |-> other]

EmptyPlan == Plan(SAbsent, SAbsent, SAbsent, SAbsent, TAbsent, TAbsent, TAbsent, TAbsent, FALSE)

\* Python truthiness of a dict: it has at least one key.
IsEmptyDict(plan) ==
    /\ \A i \in 1..4 : plan[Slots[i]].k = "absent"
    /\ \A i \in 1..4 : plan[Totals[i]].k = "absent"
    /\ ~plan.other

\* dict.get(key, []) on a slot key: the default only when the key is absent.
GetSlot(plan, key) == IF plan[key].k = "absent" THEN SList(<<>>) ELSE plan[key]

\* dict.get(key) on a totals key: None when the key is absent.
GetTotal(plan, key) == IF plan[key].k = "absent" THEN TNull ELSE plan[key]

\* dict.get(key, 0) on a totals key.
GetTotal0(plan, key) == IF plan[key].k = "absent" THEN TNum(0) ELSE plan[key]

(* ----------------------- json.dumps / json.loads ---------------------- *)

\* Serialized text is a sequence of tokens.
Tok(t, item) == [t |-> t, item |-> item]
TOpen == Tok("[", ItemBare)
TClose == Tok("]", ItemBare)
TNullTok == Tok("null", ItemBare)
TStrTok == Tok("string", ItemBare)

RECURSIVE ItemToks(_)
ItemToks(items) ==
    IF items = <<>> THEN <<>>
    ELSE <<Tok("item", Head(items))>> \o ItemToks(Tail(items))

\* json.dumps(value, ensure_ascii=False) of a slot value.
json_dumps(v) ==
    CASE v.k = "list" -> <<TOpen>> \o ItemToks(v.items) \o <<TClose>>
      [] v.k = "null" -> <<TNullTok>>
      [] v.k = "str" -> <<TStrTok>>
      [] OTHER -> <<TNullTok>>

RECURSIVE TokItems(_)
TokItems(toks) ==
    IF toks = <<>> THEN <<>>
    ELSE <<Head(toks).item>> \o TokItems(Tail(toks))

\* json.loads(text) of a stored slot column.
json_loads(text) ==
    IF Len(text) >= 2 /\ text[1] = TOpen /\ text[Len(text)] = TClose
    THEN SList(TokItems(SubSeq(text, 2, Len(text) - 1)))
    ELSE IF text = <<TStrTok>> THEN SStr
    ELSE SNull

(* ------------------------- format_diet_string ------------------------- *)

\* The text is a sequence of lines; a line carries what the f-string prints.
Line(t, s, g, n) == [t |-> t, s |-> s, g |-> g, n |-> n]

Titles == [breakfast |-> "Zavtrak", lunch |-> "Obed", dinner |-> "Uzhin", snack |-> "Perekus"]

IntroLine == Line("intro", "Plan pitaniya", 0, 0)

\* "\n- {name} ({grams}g) - {kcal} kcal" for the dict elements, nothing for others.
RECURSIVE ItemLines(_)
ItemLines(items) ==
    IF items = <<>> THEN <<>>
    ELSE LET it == Head(items)
             name == IF "name" \in it.has THEN it.name ELSE "Blyudo"
             grams == IF "grams" \in it.has THEN it.grams ELSE 0
             kcal == IF "kcal" \in it.has THEN it.kcal ELSE 0
         IN (IF it.d THEN <<Line("item", name, grams, kcal)>> ELSE <<>>)
            \o ItemLines(Tail(items))

\* One turn of the loop over mapping.items(): header, item lines, newline.
SlotLines(plan, key) ==
    LET items == GetSlot(plan, key)
    IN IF items.k = "list" /\ items.items # <<>>
       THEN <<Line("header", Titles[key], 0, 0)>> \o ItemLines(items.items)
            \o <<Line("nl", "", 0, 0)>>
       ELSE <<>>

\* "{total}" as the f-string prints a totals value.
TotalLine(label, v) ==
    CASE v.k = "num" -> Line(label, "num", 0, v.n)
      [] v.k = "null" -> Line(label, "None", 0, 0)
      [] OTHER -> Line(label, "str", 0, 0)

TotalsLines(plan) ==
    <<TotalLine("Itogo", GetTotal0(plan, "total_kcal")),
      TotalLine("B", GetTotal0(plan, "protein")),
      TotalLine("Zh", GetTotal0(plan, "fat")),
      TotalLine("U", GetTotal0(plan, "carbs"))>>

\* A formatter that walks lunch before breakfast.
FormatOrderLunchFirst == <<"lunch", "breakfast", "dinner", "snack">>

\* The order in which mapping.items() yields the slots.
FormatOrder == <<"breakfast", "lunch", "dinner", "snack">>

\* format_diet_string(diet_plan) for a dict: the steps below, run to the end.
format_diet_string(plan) ==
    IF IsEmptyDict(plan) THEN <<>>
    ELSE <<IntroLine>> \o SlotLines(plan, FormatOrder[1]) \o SlotLines(plan, FormatOrder[2])
         \o SlotLines(plan, FormatOrder[3]) \o SlotLines(plan, FormatOrder[4])
         \o TotalsLines(plan)

\* The state of one call format_diet_string(plan) before its first line runs.
FmtIdle == [pc |-> "idle", plan |-> EmptyPlan, i |-> 0, text |-> <<>>]

\* Entry: the early return "" for a falsy plan, else the intro line.
FormatEnter ==
    /\ fmt.pc = "start"
    /\ fmt' = IF IsEmptyDict(fmt.plan)
              THEN [fmt EXCEPT !.pc = "done", !.text = <<>>]
              ELSE [fmt EXCEPT !.pc = "loop", !.i = 1, !.text = <<IntroLine>>]
    /\ UNCHANGED <<chatVars, calc, txn, strk>>

\* One turn of "for key, title in mapping.items()".
FormatSlot ==
    /\ fmt.pc = "loop"
    /\ fmt.i <= Len(FormatOrder)
    /\ fmt' = [fmt EXCEPT !.i = fmt.i + 1,
                          !.text = fmt.text \o SlotLines(fmt.plan, FormatOrder[fmt.i])]
    /\ UNCHANGED <<chatVars, calc, txn, strk>>

\* The totals line and the return.
FormatTotals ==
    /\ fmt.pc = "loop"
    /\ fmt.i = Len(FormatOrder) + 1
    /\ fmt' = [fmt EXCEPT !.pc = "done", !.text = fmt.text \o TotalsLines(fmt.plan)]
    /\ UNCHANGED <<chatVars, calc, txn, strk>>

(* --------------------------- calorie target --------------------------- *)

\* Four times the resting rate (the formula has quarters: 6.25 * height).
\* metabolism = 0 stands for no recorded value ("if not bmr").
BMR4(weight, height, age, gender, metabolism) ==
    IF metabolism # 0 THEN 4 * metabolism
    ELSE IF gender = "female"
         THEN 40 * weight + 25 * height - 20 * age - 644
         ELSE 40 * weight + 25 * height - 20 * age + 20

\* activity_factor, in thousandths.
ActivityFactor(avg_steps) ==
    IF avg_steps > 12000 THEN 1550
    ELSE IF avg_steps > 7000 THEN 1375
    ELSE 1200

\* tdee = int(bmr * activity_factor)
TDEE(bmr4, factor) == (bmr4 * factor) \div 4000

\* A goal adjustment that rounds to the nearest integer instead of truncating.
TargetCaloriesRounded(tdee, bmr4, fat_mass_goal, muscle_mass_goal) ==
    IF fat_mass_goal
    THEN LET t == (tdee * 85 + 50) \div 100
         IN IF 4 * t < bmr4 THEN bmr4 \div 4 ELSE t
    ELSE IF muscle_mass_goal THEN (tdee * 110 + 50) \div 100
    ELSE tdee

\* A goal adjustment without the floor at the resting rate.
TargetCaloriesNoFloor(tdee, bmr4, fat_mass_goal, muscle_mass_goal) ==
    IF fat_mass_goal THEN (tdee * 85) \div 100
    ELSE IF muscle_mass_goal THEN (tdee * 110) \div 100
    ELSE tdee

\* target_calories, from the goals of the User row.
TargetCalories(tdee, bmr4, fat_mass_goal, muscle_mass_goal) ==
    IF fat_mass_goal
    THEN LET t == (tdee * 85) \div 100
         IN IF 4 * t < bmr4 THEN bmr4 \div 4 ELSE t
    ELSE IF muscle_mass_goal THEN (tdee * 110) \div 100
    ELSE tdee

CalcIdle ==
    [pc |-> "idle", weight |-> 0, height |-> 0, age |-> 0, gender |-> "unknown",
     metabolism |-> 0, avg_steps |-> 0, fat_mass_goal |-> FALSE,
     muscle_mass_goal |-> FALSE, bmr4 |-> 0, factor |-> 0, tdee |-> 0,
     target_calories |-> 0]

CalcBMR ==
    /\ calc.pc = "bmr"
    /\ calc' = [calc EXCEPT !.pc = "tdee",
                  !.bmr4 = BMR4(calc.weight, calc.height, calc.age, calc.gender,
                                calc.metabolism)]
    /\ UNCHANGED <<chatVars, fmt, txn, strk>>

CalcTDEE ==
    /\ calc.pc = "tdee"
    /\ calc' = [calc EXCEPT !.pc = "goal",
                  !.factor = ActivityFactor(calc.avg_steps),
                  !.tdee = TDEE(calc.bmr4, ActivityFactor(calc.avg_steps))]
    /\ UNCHANGED <<chatVars, fmt, txn, strk>>

CalcTarget ==
    /\ calc.pc = "goal"
    /\ calc' = [calc EXCEPT !.pc = "done",
                  !.target_calories = TargetCalories(calc.tdee, calc.bmr4,
                                          calc.fat_mass_goal, calc.muscle_mass_goal)]
    /\ UNCHANGED <<chatVars, fmt, txn, strk>>

(* ------------------------------- streak ------------------------------ *)

\* sorted(list(set(dates)), reverse=True) of a set of days.
RECURSIVE SortedDesc(_)
SortedDesc(S) ==
    IF S = {} THEN <<>>
    ELSE LET top == CHOOSE d \in S : \A e \in S : e <= d
         IN <<top>> \o SortedDesc(S \ {top})

\* The days of a list.
Days(dates_list) == {dates_list[i] : i \in 1..Len(dates_list)}

\* pc: where the function stands; dates_list: the argument; sorted: the list
\* after the sort; i: the position of the for loop; check_date, streak: the
\* locals; result: the value returned.
StreakIdle ==
    [pc |-> "idle", dates_list |-> <<>>, sorted |-> <<>>, i |-> 0, check_date |-> 0,
     streak |-> 0, result |-> 0]

\* From the entry to the first turn of the loop: the two early returns, the
\* sort and the choice of the day the count starts from.
StreakEnter ==
    /\ strk.pc = "start"
    /\ \E sorted \in {SortedDesc(Days(strk.dates_list))} :
          IF strk.dates_list = <<>>
          THEN strk' = [strk EXCEPT !.pc = "done", !.result = 0]
          ELSE IF sorted[1] < today - 1
          THEN strk' = [strk EXCEPT !.pc = "done", !.sorted = sorted, !.result = 0]
          ELSE strk' = [strk EXCEPT !.pc = "loop", !.sorted = sorted, !.i = 1,
                                    !.check_date = IF sorted[1] = today THEN today
                                                   ELSE today - 1]
    /\ UNCHANGED <<chatVars, fmt, calc, txn>>

\* One turn of "for d in dates_list".
StreakLoop ==
    /\ strk.pc = "loop"
    /\ strk.i <= Len(strk.sorted)
    /\ \E d \in {strk.sorted[strk.i]} :
          IF d = strk.check_date
          THEN strk' = [strk EXCEPT !.streak = @ + 1, !.check_date = @ - 1, !.i = @ + 1]
          ELSE IF d > strk.check_date
          THEN strk' = [strk EXCEPT !.i = @ + 1]
          ELSE strk' = [strk EXCEPT !.pc = "done", !.result = strk.streak]
    /\ UNCHANGED <<chatVars, fmt, calc, txn>>

\* The list is exhausted: return streak.
StreakReturn ==
    /\ strk.pc = "loop"
    /\ strk.i > Len(strk.sorted)
    /\ strk' = [strk EXCEPT !.pc = "done", !.result = strk.streak]
    /\ UNCHANGED <<chatVars, fmt, calc, txn>>

(* ------------------------- completion service ------------------------- *)

\* The "text" / "justification" value of a response object.
\* k: "absent", "null", "str".
TextVal(k, s) == [k |-> k, s |-> s]
TextAbsent == TextVal("absent", "")
TextNull == TextVal("null", "")
TextT == TextVal("str", "T1")
\* A justification that says the plan is a basic one, built on average values.
TextBasic == TextVal("str", "Eto bazovyj racion")

\* The "diet_plan" value of a response object. k: "absent", "null", "num"
\* (non-zero), "list" (non-empty), "dict", "str" (non-empty). For a string,
\* enc says what json.loads makes of it: "garbage" (it raises), "list", "dict".
DP(k, enc, plan) == [k |-> k, enc |-> enc, plan |-> plan]
DPAbsent == DP("absent", "", EmptyPlan)
DPNull == DP("null", "", EmptyPlan)
DPNum == DP("num", "", EmptyPlan)
DPList == DP("list", "", EmptyPlan)
DPDict(plan) == DP("dict", "", plan)
DPStrGarbage == DP("str", "garbage", EmptyPlan)
DPStrList == DP("str", "list", EmptyPlan)
DPStrDict(plan) == DP("str", "dict", plan)

\* What a completion call gives back. k: "notcalled", "none" (the call failed),
\* "empty" (an empty string), "garbage" (not JSON), "nonobj" (JSON whose top
\* level is an array or a scalar), "obj" (a JSON object), "text" (free text).
Gw(k, action, text, dp) == [k |-> k, action |-> action, text |-> text, dp |-> dp]
GwNotCalled == Gw("notcalled", "absent", TextAbsent, DPAbsent)
GwNone == Gw("none", "absent", TextAbsent, DPAbsent)
GwEmpty == Gw("empty", "absent", TextAbsent, DPAbsent)
GwGarbage == Gw("garbage", "absent", TextAbsent, DPAbsent)
GwNonObj == Gw("nonobj", "absent", TextAbsent, DPAbsent)
GwObj(action, text, dp) == Gw("obj", action, text, dp)
GwText == Gw("text", "absent", TextT, DPAbsent)

(* ------------------------------ the plans ----------------------------- *)

PFull1 ==
    Plan(SList(<<ItemA>>), SList(<<ItemC>>), SList(<<ItemB>>), SList(<<ItemA, ItemB>>),
         TNum(1800), TNum(120), TNum(60), TNum(200), FALSE)
PFull2 ==
    Plan(SList(<<ItemB>>), SList(<<ItemA>>), SList(<<ItemC, ItemA>>), SList(<<ItemC>>),
         TNum(2100), TNum(140), TNum(70), TNum(230), FALSE)
PBreakfastOnly ==
    Plan(SList(<<ItemB>>), SAbsent, SAbsent, SAbsent, TAbsent, TAbsent, TAbsent, TAbsent, FALSE)
POther == [EmptyPlan EXCEPT !.other = TRUE]
PLowKcal == [PFull2 EXCEPT !.total_kcal = TNum(400)]
PKcalNull == [PFull2 EXCEPT !.total_kcal = TNull]
PKcalStr == [PFull2 EXCEPT !.total_kcal = TStr]
PProteinStr == [PFull2 EXCEPT !.protein = TStr]
PCarbsAbsent == [PFull2 EXCEPT !.carbs = TAbsent]

\* PFull2 with one slot replaced by a value that is no list.
BadSlotPlans ==
    {[PFull2 EXCEPT ![key] = v] : key \in {"lunch", "snack"}, v \in {SAbsent, SNull, SStr}}

Plans ==
    {PFull1, PFull2, PBreakfastOnly, POther, EmptyPlan, PLowKcal, PKcalNull, PKcalStr,
     PProteinStr, PCarbsAbsent} \cup BadSlotPlans

\* Responses to the diet generation call (client.chat.completions.create).
GenResponses ==
    {GwNone, GwGarbage, GwNonObj}
    \cup {GwObj("absent", TextT, dp) : dp \in {DPAbsent, DPNull, DPList, DPStrDict(PFull2)}}
    \cup {GwObj("absent", TextT, DPDict(p)) : p \in Plans}
    \cup {GwObj("absent", t, DPDict(PFull2)) : t \in {TextAbsent, TextNull, TextBasic}}

\* Responses to the ModifyOrAsk call (_call_openai with json_mode).
ModResponses ==
    {GwNone, GwEmpty, GwGarbage, GwNonObj}
    \cup {GwObj("answer", t, DPAbsent) : t \in {TextT, TextAbsent, TextNull}}
    \cup {GwObj(a, TextT, DPDict(PFull2)) : a \in {"answer", "absent", "other"}}
    \cup {GwObj("update", TextT, dp) :
            dp \in {DPAbsent, DPNull, DPNum, DPList, DPStrGarbage, DPStrList,
                    DPStrDict(EmptyPlan), DPStrDict(PFull2), DPStrDict(PBreakfastOnly)}}
    \cup {GwObj("update", TextT, DPDict(p)) : p \in Plans}
    \cup {GwObj("update", t, DPDict(PFull2)) : t \in {TextAbsent, TextNull}}

\* Responses to a free-text call (_call_openai without json_mode).
TextResponses == {GwNone, GwText}

(* --------------------------- the Diet table --------------------------- *)

Users == {"u1", "u2"}

\* Diet(user_id=..., date=..., breakfast=json.dumps(plan.get('breakfast', [])), ...,
\*      total_kcal=plan.get('total_kcal'), ...)
DietRow(id, user_id, date, plan) ==
    [id |-> id, user_id |-> user_id, date |-> date,
     breakfast |-> json_dumps(GetSlot(plan, "breakfast")),
     lunch |-> json_dumps(GetSlot(plan, "lunch")),
     dinner |-> json_dumps(GetSlot(plan, "dinner")),
     snack |-> json_dumps(GetSlot(plan, "snack")),
     total_kcal |-> GetTotal(plan, "total_kcal"),
     protein |-> GetTotal(plan, "protein"),
     fat |-> GetTotal(plan, "fat"),
     carbs |-> GetTotal(plan, "carbs")]
\* An update that overwrites the four slots and leaves the totals.
OverwriteSlotsOnly(row, plan) ==
    [row EXCEPT
       !.breakfast = json_dumps(GetSlot(plan, "breakfast")),
       !.lunch = json_dumps(GetSlot(plan, "lunch")),
       !.dinner = json_dumps(GetSlot(plan, "dinner")),
       !.snack = json_dumps(GetSlot(plan, "snack"))]

\* The eight attribute assignments of the Update branch on current_diet_obj.
OverwriteRow(row, plan) ==
    [row EXCEPT
       !.breakfast = json_dumps(GetSlot(plan, "breakfast")),
       !.lunch = json_dumps(GetSlot(plan, "lunch")),
       !.dinner = json_dumps(GetSlot(plan, "dinner")),
       !.snack = json_dumps(GetSlot(plan, "snack")),
       !.total_kcal = GetTotal(plan, "total_kcal"),
       !.protein = GetTotal(plan, "protein"),
       !.fat = GetTotal(plan, "fat"),
       !.carbs = GetTotal(plan, "carbs")]

\* A lookup of the current diet that forgets whose diet it looks for.
CurrentDietsOfAnyone(store, user_id) ==
    {r \in store : \A q \in store : q.date <= r.date}

\* Diet.query.filter_by(user_id=user_id).order_by(Diet.date.desc()).first():
\* the rows of the user with the latest date (the database picks one of them).
CurrentDiets(store, user_id) ==
    {r \in store : /\ r.user_id = user_id
                   /\ \A q \in store : q.user_id = user_id => q.date <= r.date}

\* A generation that skips the delete of today's rows.
DeleteNothing(store, user_id, date) == store

\* A delete that takes the rows of the day of every user.
DeleteTodayOfEveryone(store, user_id, date) ==
    {r \in store : r.date # date}

\* Diet.query.filter_by(user_id=user.id, date=date.today()).delete()
DeleteToday(store, user_id, date) ==
    {r \in store : ~(r.user_id = user_id /\ r.date = date)}

\* db.session.commit(): the totals columns are numeric, so a value that is
\* neither a number nor NULL is accepted or refused depending on the database.
Storable(plan) ==
    \A i \in 1..4 : GetTotal(plan, Totals[i]).k \in {"null", "num"}

CommitOutcomes(plan) == IF Storable(plan) THEN {TRUE} ELSE {TRUE, FALSE}

\* Two requests handled at the same time, each in a database session of its own.
Reqs == {"r1", "r2"}

\* One transaction of generate_diet_for_user. pc: where the request stands;
\* seen: the ids of the rows its DELETE statement matched; date: date.today()
\* when the new row was built; plan: the plan it parsed.
Txn(pc, seen, date, plan) == [pc |-> pc, seen |-> seen, date |-> date, plan |-> plan]

\* order: the requests in the order of their commits.
TxnIdle == [t |-> [p \in Reqs |-> Txn("idle", {}, 0, EmptyPlan)], order |-> <<>>]

(* ------------------------ conversation history ------------------------ *)

\* chat_history[-15:]
HistoryLimit == 15
Last15(turns) ==
    IF Len(turns) > HistoryLimit
    THEN SubSeq(turns, Len(turns) - HistoryLimit + 1, Len(turns))
    ELSE turns

Turn(role, content) == [role |-> role, content |-> content]
Msg(s) == <<Line("msg", s, 0, 0)>>
UserTurn(msg) == Turn("user", <<Line("user", msg, 0, 0)>>)

\* A text value returned as the content: a string, or JSON null.
TextContent(t) ==
    IF t.k = "str" THEN <<Line("text", t.s, 0, 0)>> ELSE <<Line("null", "", 0, 0)>>

\* A text value inside an f-string: None prints as "None".
TextInString(t) ==
    IF t.k = "str" THEN <<Line("text", t.s, 0, 0)>> ELSE <<Line("text", "None", 0, 0)>>

NoHistory == [present |-> FALSE, turns |-> <<>>]
Stored(turns) == [present |-> TRUE, turns |-> turns]

\* session.get('chat_history', []) followed by append(user turn): the list held
\* by the session grows in place; without the key a fresh list is used and lost.
InMemory(h, msg) ==
    IF h.present THEN Stored(h.turns \o <<UserTurn(msg)>>) ELSE NoHistory

\* The local list of handle_chat after chat_history[-15:].
LocalHistory(h, msg) == Last15(h.turns \o <<UserTurn(msg)>>)

\* End of a request that never assigned session['chat_history']: the cookie is
\* rewritten from the in-memory session only when it is refreshed on each request.
Unassigned(h, msg, refresh) == IF refresh THEN InMemory(h, msg) ELSE h

\* generate_diet_for_user: session.get, append, session[...] = chat_history[-15:]
AssignedInGenerate(h, msg, content) ==
    Stored(Last15(InMemory(h, msg).turns \o <<Turn("assistant", content)>>))

\* handle_chat: chat_history.append(...); session['chat_history'] = chat_history
AssignedInChat(h, msg, content) ==
    Stored(LocalHistory(h, msg) \o <<Turn("assistant", content)>>)

(* ----------------------- generate_diet_for_user ----------------------- *)

(* ------------------------------ user data ----------------------------- *)

\* What the handlers read about a user. exists: User.query.get(user_id) finds
\* the row. A number 0 stands for a
\* value that is None or zero ("if not weight"). mweight, height: the latest
\* BodyAnalysis; lweight: the latest WeightLog; sweight: the profile's
\* start_weight; age: calculate_age(date_of_birth).
UserRow(gender, mweight, lweight, sweight, height, age, hasBA) ==
    [exists |-> TRUE, gender |-> gender, mweight |-> mweight, lweight |-> lweight,
     sweight |-> sweight, height |-> height, age |-> age, hasBA |-> hasBA]

\* weight: the latest analysis, else the latest weight log, else the profile.
ResolveWeight(d) ==
    IF d.mweight # 0 THEN d.mweight
    ELSE IF d.lweight # 0 THEN d.lweight
    ELSE d.sweight

\* A gate that does not ask for the age.
MissingDataNoAge(d) ==
    (IF ResolveWeight(d) = 0 THEN <<"ves">> ELSE <<>>)
    \o (IF d.height = 0 THEN <<"rost">> ELSE <<>>)

\* missing_data
MissingData(d) ==
    (IF ResolveWeight(d) = 0 THEN <<"ves">> ELSE <<>>)
    \o (IF d.height = 0 THEN <<"rost">> ELSE <<>>)
    \o (IF d.age = 0 THEN <<"vozrast">> ELSE <<>>)

Complete(d) == MissingData(d) = <<>>

\* The values the computation and the prompt use, and is_estimation.
SubstituteDefaults(d) ==
    [weight |-> IF ResolveWeight(d) = 0
                THEN (IF d.gender # "female" THEN 70 ELSE 60)
                ELSE ResolveWeight(d),
     height |-> IF d.height = 0
                THEN (IF d.gender # "female" THEN 175 ELSE 165)
                ELSE d.height,
     age |-> IF d.age = 0 THEN 30 ELSE d.age,
     is_estimation |-> ResolveWeight(d) = 0 \/ d.height = 0 \/ d.age = 0]

\* What the prompt of the generation call says about the user; note: the
\* prompt carries estimation_note. diet: the Diet rows whose summary
\* (current_diet_json) stands in the prompt of a scenario.
NoPrompt ==
    [sent |-> FALSE, weight |-> 0, height |-> 0, age |-> 0, note |-> FALSE, diet |-> {}]
Prompt(d) ==
    LET v == SubstituteDefaults(d)
    IN [sent |-> TRUE, weight |-> v.weight, height |-> v.height, age |-> v.age,
        note |-> v.is_estimation, diet |-> {}]

\* The request-for-data message: it lists the missing fields.
RefusalText(missing) ==
    <<Line("msg", "Dlya tochnogo rascheta mne ne hvataet dannyh", 0, 0)>>
    \o [i \in 1..Len(missing) |-> Line("missing", missing[i], 0, 0)]

FullUser == UserRow("male", 80, 0, 0, 180, 30, TRUE)
NoDataUser == UserRow("unknown", 0, 0, 0, 0, 0, FALSE)
\* The user id of the session has no row any more.
DeletedUser == [NoDataUser EXCEPT !.exists = FALSE]

\* total_kcal below which a generated plan is refused
MinKcal == 500

DefaultJustification == TextVal("str", "Racion sostavlen dlya celi")

\* A generation that keeps the record of the day when there is one.
GenerateStoreKeepFirst(store, id, date, user_id, plan) ==
    IF \E r \in store : r.user_id = user_id /\ r.date = date
    THEN store
    ELSE store \cup {DietRow(id, user_id, date, plan)}

\* Step 3 of the function: delete today's rows of the user, add the new row.
GenerateStore(store, id, date, user_id, plan) ==
    DeleteToday(store, user_id, date) \cup {DietRow(id, user_id, date, plan)}

GenOutcome(result, content, store, id, hist, called) ==
    [result |-> result, content |-> content, diets |-> store, nextId |-> id,
     hist |-> hist, called |-> called]

\* A check of the generated plan that asks only for a JSON object with a
\* diet_plan object in it.
GenerateVerdictNoMinimum(gw) ==
    IF gw.k # "obj" THEN "raise"
    ELSE IF gw.dp.k \in {"absent", "null"} THEN "reject"
    ELSE IF gw.dp.k # "dict" THEN "raise"
    ELSE "accept"

\* "if not diet_plan or diet_plan.get('total_kcal', 0) < 500": "reject" when the
\* test is true, "raise" when evaluating it raises, "accept" otherwise.
GenerateVerdict(gw) ==
    IF gw.k # "obj" THEN "raise"
    ELSE IF gw.dp.k \in {"absent", "null"} THEN "reject"
    ELSE IF gw.dp.k # "dict" THEN "raise"
    ELSE IF IsEmptyDict(gw.dp.plan) THEN "reject"
    ELSE LET kc == GetTotal0(gw.dp.plan, "total_kcal")
         IN IF kc.k # "num" THEN "raise"
            ELSE IF kc.n < MinKcal THEN "reject"
            ELSE "accept"

\* The whole function. h: the session history at the
\* start of the request, msg: the user message handle_chat appended.
generate_diet_for_user(store, id, date, user_id, exists, missing, force_basic, gw, commit_ok, h, msg, refresh) ==
    IF ~exists
    THEN GenOutcome("error", Msg("Oshibka generacii: User not found"), store, id,
                    Unassigned(h, msg, refresh), FALSE)
    ELSE IF missing # <<>> /\ ~force_basic
    THEN LET text == RefusalText(missing)
         IN GenOutcome("require_data", text, store, id,
                       AssignedInGenerate(h, msg, text), FALSE)
    ELSE LET verdict == GenerateVerdict(gw)
         IN IF verdict = "raise"
            THEN GenOutcome("error", Msg("Oshibka generacii: exception"), store, id,
                            Unassigned(h, msg, refresh), TRUE)
            ELSE IF verdict = "reject"
            THEN GenOutcome("error", Msg("Oshibka generacii: Sgenerirovan nekorrektnyj plan."),
                            store, id, Unassigned(h, msg, refresh), TRUE)
            ELSE IF ~commit_ok
            THEN GenOutcome("error", Msg("Oshibka generacii: exception"), store, id,
                            Unassigned(h, msg, refresh), TRUE)
            ELSE LET plan == gw.dp.plan
                     justification == IF gw.text.k = "absent" THEN DefaultJustification
                                      ELSE gw.text
                     newstore == GenerateStore(store, id, date, user_id, plan)
                     text == TextInString(justification) \o format_diet_string(plan)
                     hist == AssignedInGenerate(h, msg, text)
                 IN \* justification[:40] raises on a value that is no string
                    IF justification.k # "str"
                    THEN GenOutcome("error", Msg("Oshibka generacii: exception"),
                                    newstore, id + 1, hist, TRUE)
                    ELSE GenOutcome("success", text, newstore, id + 1, hist, TRUE)

(* ----------------------------- handle_chat ---------------------------- *)

\* User messages: the second one contains a keyword of the force_basic test.
PlainMessage == "sostav racion"
BasicMessage == "sostav bazovuyu dietu"
Messages == {PlainMessage, BasicMessage}
ForceBasic(msg) == msg = BasicMessage

\* What the classification call gives back: None, or a string, of which only
\* the keywords it contains matter.
ClassifierOutputs ==
    {[k |-> "none", kws |-> {}]}
    \cup {[k |-> "str", kws |-> s] :
            s \in {{}, {"Generat"}, {"Generaciya", "Dieta"}, {"Dieta"},
                   {"Dieta", "Pokazateli"}, {"Pokazateli"}}}

\* No classification call was made.
NoCls == [k |-> "notcalled", kws |-> {}]

\* classifier_text = _call_openai(...) or "Obshee"
ClassifierText(cls) == IF cls.k = "none" THEN {} ELSE cls.kws

\* A chain whose last branch is the diet scenario.
RouteNoFallback(kws) ==
    IF "Generaciya" \in kws \/ "Generat" \in kws THEN "generate"
    ELSE IF "Pokazateli" \in kws /\ "Dieta" \notin kws THEN "metrics"
    ELSE "modify"

\* A chain that tests the metrics keyword before the diet keyword.
RouteMetricsFirst(kws) ==
    IF "Generaciya" \in kws \/ "Generat" \in kws THEN "generate"
    ELSE IF "Pokazateli" \in kws THEN "metrics"
    ELSE IF "Dieta" \in kws THEN "modify"
    ELSE "general"

\* The if / elif chain of handle_chat over classifier_text.
Route(kws) ==
    IF "Generaciya" \in kws \/ "Generat" \in kws THEN "generate"
    ELSE IF "Dieta" \in kws THEN "modify"
    ELSE IF "Pokazateli" \in kws THEN "metrics"
    ELSE "general"

\* "if response_json_str:" fails: the call gave None or an empty string.
NoReply(gw) == gw.k \in {"none", "empty"}

\* A parser that accepts any JSON value, object or not.
ParseFailsGarbageOnly(gw) == gw.k = "garbage"

\* json.loads(response_json_str) raises, or resp_data.get raises because the
\* top-level value is no dict: both end in the except branch.
ParseFails(gw) == gw.k \in {"garbage", "nonobj"}

\* A handler that applies any response carrying an object diet_plan.
IsUpdateOrCarriesPlan(gw) == gw.action = "update" \/ gw.dp.k = "dict"

\* if action == "update"
IsUpdate(gw) == gw.action = "update"

\* A handler without the second parse pass.
SecondPassSkipped(dp) == dp

\* The nested diet_plan after the second parse pass on a string value.
SecondPass(dp) ==
    IF dp.k # "str" THEN dp
    ELSE IF dp.enc = "dict" THEN DPDict(dp.plan)
    ELSE IF dp.enc = "list" THEN DPList
    ELSE DPNull

\* "if new_plan and isinstance(new_plan, dict)"
UpdateApplies(dp) ==
    LET np == SecondPass(dp)
    IN np.k = "dict" /\ ~IsEmptyDict(np.plan)

\* The Update branch reaches db.session.commit().
ReachesCommit(gw) ==
    ~NoReply(gw) /\ ~ParseFails(gw) /\ IsUpdate(gw) /\ UpdateApplies(gw.dp)

\* ai_text = resp_data.get("text", "Gotovo.")
AiText(gw) == IF gw.text.k = "absent" THEN TextVal("str", "Gotovo.") ELSE gw.text

LastNone ==
    [kind |-> "none", user |-> "", scenario |-> "", msg |-> "", gw |-> GwNotCalled,
     commit_ok |-> TRUE, status |-> 0, role |-> "", content |-> <<>>, calls |-> {},
     before |-> {}, date |-> 0, prompt |-> NoPrompt, cls |-> NoCls]

\* before: the Diet table when the request came in; date: date.today() then.
Response(user, scenario, msg, gw, commit_ok, status, role, content, calls) ==
    [kind |-> "chat", user |-> user, scenario |-> scenario, msg |-> msg, gw |-> gw,
     commit_ok |-> commit_ok, status |-> status, role |-> role, content |-> content,
     calls |-> calls, before |-> diets, date |-> today, prompt |-> NoPrompt, cls |-> NoCls]

\* The response of a request that went through the classification: cls is
\* what the classification call gave back.
Routed(cls, response) == [response EXCEPT !.cls = cls]

\* The response of a request whose prompt held the summary of the rows.
WithDiet(rows, response) == [response EXCEPT !.prompt.diet = rows]

\* current_diet_obj as a set: the row the query returned, or none.
CurrentDietChoices(store, user_id) ==
    IF CurrentDiets(store, user_id) = {} THEN {{}}
    ELSE {{r} : r \in CurrentDiets(store, user_id)}

\* The Generate calls of one user on one day: n requests, calls of them reached
\* the completion service, the plan parsed last, the plan stored last.
GenIdle ==
    [date |-> 0, n |-> 0, calls |-> 0, parsed |-> FALSE, pplan |-> EmptyPlan,
     stored |-> FALSE, splan |-> EmptyPlan]

GenAfter(g, date, gw, called, inserted) ==
    LET b == IF g.date = date THEN g ELSE [GenIdle EXCEPT !.date = date]
        isplan == called /\ gw.k = "obj" /\ gw.dp.k = "dict"
    IN [b EXCEPT !.n = b.n + 1,
                 !.calls = b.calls + (IF called THEN 1 ELSE 0),
                 !.parsed = b.parsed \/ isplan,
                 !.pplan = IF isplan THEN gw.dp.plan ELSE b.pplan,
                 !.stored = b.stored \/ inserted,
                 !.splan = IF inserted THEN gw.dp.plan ELSE b.splan]

\* 400: the message is empty after strip().
ChatEmpty ==
    /\ nreq < MaxReq
    /\ nreq' = nreq + 1
    /\ last' = Response("", "", "", GwNotCalled, TRUE, 400, "error",
                        Msg("Pustoe soobshenie"), {})
    /\ UNCHANGED <<diets, nextId, today, users, chat_history, sessionRefresh, gen, fmt, calc, txn, strk>>

\* A handler that appends the user turn before it looks for the user id.
ChatUnauthenticatedLate ==
    /\ nreq < MaxReq
    /\ nreq' = nreq + 1
    /\ last' = Response("", "", PlainMessage, GwNotCalled, TRUE, 401, "ai",
                        Msg("Pozhalujsta, avtorizujtes."), {})
    /\ \E u \in Users :
          chat_history' = [chat_history EXCEPT ![u] = InMemory(Stored(@.turns), PlainMessage)]
    /\ UNCHANGED <<diets, nextId, today, users, sessionRefresh, gen, fmt, calc, txn, strk>>

\* 401: the session holds no user_id.
ChatUnauthenticated ==
    /\ nreq < MaxReq
    /\ nreq' = nreq + 1
    /\ last' = Response("", "", PlainMessage, GwNotCalled, TRUE, 401, "ai",
                        Msg("Pozhalujsta, avtorizujtes."), {})
    /\ UNCHANGED <<diets, nextId, today, users, chat_history, sessionRefresh, gen, fmt, calc, txn, strk>>

\* Scenario 1: the classifier text routes to generate_diet_for_user.
ChatGenerate ==
    \E u \in Users, msg \in Messages, cls \in ClassifierOutputs :
        /\ nreq < MaxReq
        /\ Route(ClassifierText(cls)) = "generate"
        /\ \E gw \in (IF ~users[u].exists \/ (~Complete(users[u]) /\ ~ForceBasic(msg))
                      THEN {GwNotCalled} ELSE GenResponses) :
           \E ok \in (IF GenerateVerdict(gw) = "accept"
                      THEN CommitOutcomes(gw.dp.plan) ELSE {TRUE}) :
              \E o \in {generate_diet_for_user(diets, nextId, today, u, users[u].exists,
                           MissingData(users[u]),
                           ForceBasic(msg), gw, ok, chat_history[u], msg, sessionRefresh)} :
                 /\ diets' = o.diets
                 /\ nextId' = o.nextId
                 /\ chat_history' = [chat_history EXCEPT ![u] = o.hist]
                 /\ last' = [Response(u, "generate", msg, gw, ok, 200, "ai",
                                  o.content,
                                  IF o.called THEN {"classify", "generate"}
                                  ELSE {"classify"})
                               EXCEPT !.cls = cls,
                                      !.prompt = IF o.called THEN Prompt(users[u])
                                                 ELSE NoPrompt]
                 /\ gen' = [gen EXCEPT ![u] =
                              GenAfter(@, today, gw, o.called, o.nextId # nextId)]
        /\ nreq' = nreq + 1
        /\ UNCHANGED <<today, users, sessionRefresh, fmt, calc, txn, strk>>

\* An Update that overwrites every record of the user of the row.
ModifyStoreEveryRow(store, row, gw, commit_ok) ==
    IF ReachesCommit(gw) /\ commit_ok
    THEN {IF r.user_id = row.user_id THEN OverwriteRow(r, SecondPass(gw.dp).plan) ELSE r :
            r \in store}
    ELSE store

\* What the Update branch leaves in the store.
ModifyStore(store, row, gw, commit_ok) ==
    IF ReachesCommit(gw) /\ commit_ok
    THEN (store \ {row}) \cup {OverwriteRow(row, SecondPass(gw.dp).plan)}
    ELSE store

\* The reply of scenario 2 once a current diet exists; assigned: the branch
\* reached session['chat_history'] = chat_history.
ModifyReply(gw, commit_ok) ==
    IF NoReply(gw)
    THEN [content |-> Msg("II ne otvetil."), assigned |-> FALSE]
    ELSE IF ParseFails(gw)
    THEN [content |-> Msg("Proizoshla oshibka pri obrabotke zaprosa."), assigned |-> FALSE]
    ELSE IF ~IsUpdate(gw)
    THEN [content |-> TextContent(AiText(gw)), assigned |-> TRUE]
    ELSE IF ~UpdateApplies(gw.dp)
    THEN [content |-> Msg("Ne udalos izmenit plan. Poprobujte pereformulirovat."),
          assigned |-> TRUE]
    ELSE IF ~commit_ok
    THEN [content |-> Msg("Proizoshla oshibka pri obrabotke zaprosa."), assigned |-> FALSE]
    ELSE [content |-> TextInString(AiText(gw))
                      \o format_diet_string(SecondPass(gw.dp).plan),
          assigned |-> TRUE]

\* Scenario 2: work on the current diet.
ChatModify ==
    \E u \in Users, cls \in ClassifierOutputs :
        /\ nreq < MaxReq
        /\ Route(ClassifierText(cls)) = "modify"
        /\ IF CurrentDiets(diets, u) = {}
           THEN /\ diets' = diets
                /\ gen' = gen
                /\ chat_history' =
                     [chat_history EXCEPT ![u] = Unassigned(@, PlainMessage, sessionRefresh)]
                /\ last' = Routed(cls, Response(u, "modify", PlainMessage, GwNotCalled, TRUE,
                                      200, "ai", Msg("U vas eshe net aktivnoj diety."),
                                      {"classify"}))
           ELSE \E row \in CurrentDiets(diets, u), gw \in ModResponses :
                \E ok \in (IF ReachesCommit(gw)
                           THEN CommitOutcomes(SecondPass(gw.dp).plan) ELSE {TRUE}) :
                   \E r \in {ModifyReply(gw, ok)} :
                      /\ diets' = ModifyStore(diets, row, gw, ok)
                      /\ gen' = IF diets' # diets THEN [gen EXCEPT ![u] = GenIdle] ELSE gen
                      /\ chat_history' =
                           [chat_history EXCEPT ![u] =
                              IF r.assigned THEN AssignedInChat(@, PlainMessage, r.content)
                              ELSE Unassigned(@, PlainMessage, sessionRefresh)]
                      /\ last' = WithDiet({row},
                                    Routed(cls, Response(u, "modify", PlainMessage, gw, ok, 200,
                                               "ai", r.content, {"classify", "modify"})))
        /\ nreq' = nreq + 1
        /\ UNCHANGED <<nextId, today, users, sessionRefresh, fmt, calc, txn, strk>>

\* reply = _call_openai(...): None when the call failed.
ReplyContent(gw) == IF gw.k = "none" THEN TextContent(TextNull) ELSE TextContent(gw.text)

\* Scenario 3: body metrics.
ChatMetrics ==
    \E u \in Users, cls \in ClassifierOutputs :
        /\ nreq < MaxReq
        /\ Route(ClassifierText(cls)) = "metrics"
        /\ IF ~users[u].hasBA
           THEN /\ chat_history' =
                     [chat_history EXCEPT ![u] = Unassigned(@, PlainMessage, sessionRefresh)]
                /\ last' = Routed(cls, Response(u, "metrics", PlainMessage, GwNotCalled, TRUE,
                                      200, "ai", Msg("Net dannyh analiza tela."),
                                      {"classify"}))
           ELSE \E gw \in TextResponses :
                   /\ chat_history' =
                        [chat_history EXCEPT ![u] =
                           AssignedInChat(@, PlainMessage, ReplyContent(gw))]
                   /\ last' = Routed(cls, Response(u, "metrics", PlainMessage, gw, TRUE, 200,
                                         "ai", ReplyContent(gw), {"classify", "metrics"}))
        /\ nreq' = nreq + 1
        /\ UNCHANGED <<diets, nextId, today, users, sessionRefresh, gen, fmt, calc, txn, strk>>

\* Scenario 4: general chat. Without a User row the context is {} and
\* user_context['profile'] raises KeyError, which nothing catches: the
\* framework answers 500 with an error page.
ChatGeneral ==
    \E u \in Users, cls \in ClassifierOutputs :
        /\ nreq < MaxReq
        /\ Route(ClassifierText(cls)) = "general"
        /\ IF ~users[u].exists
           THEN /\ chat_history' =
                     [chat_history EXCEPT ![u] = Unassigned(@, PlainMessage, sessionRefresh)]
                /\ last' = Routed(cls, Response(u, "general", PlainMessage, GwNotCalled, TRUE,
                                      500, "", <<>>, {"classify"}))
           ELSE \E gw \in TextResponses, cur \in CurrentDietChoices(diets, u) :
                   /\ chat_history' =
                        [chat_history EXCEPT ![u] =
                           AssignedInChat(@, PlainMessage, ReplyContent(gw))]
                   /\ last' = WithDiet(cur,
                                 Routed(cls, Response(u, "general", PlainMessage, gw, TRUE, 200,
                                            "ai", ReplyContent(gw), {"classify", "general"})))
        /\ nreq' = nreq + 1
        /\ UNCHANGED <<diets, nextId, today, users, sessionRefresh, gen, fmt, calc, txn, strk>>

\* GET /assistant/history: session.get('chat_history', []) as the body.
GetHistory ==
    \E u \in Users :
        /\ last' = [LastNone EXCEPT !.kind = "history", !.user = u, !.status = 200,
                                    !.content = chat_history[u].turns]
        /\ UNCHANGED <<diets, nextId, today, users, chat_history, sessionRefresh, nreq,
                       gen, fmt, calc, txn, strk>>

\* POST /assistant/clear: session.pop('chat_history', None).
ClearHistory ==
    \E u \in Users :
        /\ chat_history' = [chat_history EXCEPT ![u] = NoHistory]
        /\ last' = [LastNone EXCEPT !.kind = "clear", !.user = u, !.status = 200]
        /\ UNCHANGED <<diets, nextId, today, users, sessionRefresh, nreq, gen, fmt, calc, txn, strk>>

\* Diet.query.filter_by(user_id=user.id, date=date.today()).delete(): the
\* statement matches the committed rows of the user and the day; the rows go
\* when the transaction commits.
TxnDelete ==
    \E p \in Reqs :
        /\ txn.t[p].pc = "parsed"
        /\ txn' = [txn EXCEPT !.t[p].pc = "deleted",
                              !.t[p].seen = {r.id : r \in {q \in diets : q.user_id = "u1" /\ q.date = today}}]
        /\ UNCHANGED <<chatVars, fmt, calc, strk>>

\* new_diet = Diet(user_id=user.id, date=date.today(), ...); db.session.add(new_diet)
TxnInsert ==
    \E p \in Reqs :
        /\ txn.t[p].pc = "deleted"
        /\ txn' = [txn EXCEPT !.t[p].pc = "inserted", !.t[p].date = today]
        /\ UNCHANGED <<chatVars, fmt, calc, strk>>

\* db.session.commit(): the deletes and the insert of the transaction reach
\* the table together.
TxnCommit ==
    \E p \in Reqs :
        /\ txn.t[p].pc = "inserted"
        /\ diets' = {r \in diets : r.id \notin txn.t[p].seen}
                      \cup {DietRow(nextId, "u1", txn.t[p].date, txn.t[p].plan)}
        /\ nextId' = nextId + 1
        /\ txn' = [txn EXCEPT !.t[p].pc = "committed", !.order = Append(@, p)]
        /\ UNCHANGED <<today, users, chat_history, sessionRefresh, nreq, last, gen, fmt, calc,
                       strk>>

\* user_bp.delete_my_account, called from another session of the user: the
\* Diet and BodyAnalysis rows and the User row go; the session of the model
\* keeps its user_id and its history.
DeleteAccount ==
    \E u \in Users :
        /\ users[u].exists
        /\ users' = [users EXCEPT ![u] = DeletedUser]
        /\ diets' = {r \in diets : r.user_id # u}
        /\ gen' = [gen EXCEPT ![u] = GenIdle]
        /\ UNCHANGED <<nextId, today, chat_history, sessionRefresh, nreq, last, fmt, calc, txn, strk>>

\* Midnight: date.today() moves to the next day.
Tick ==
    /\ today < MaxDay
    /\ today' = today + 1
    /\ UNCHANGED <<diets, nextId, users, chat_history, sessionRefresh, nreq, last, gen,
                   fmt, calc, txn, strk>>

(* --------------------------- specifications --------------------------- *)

InitUsers ==
    [u \in Users |-> IF u = "u1" THEN FullUser ELSE NoDataUser]

\* A database in which u1 has a generated diet of day 1, and fresh sessions.
InitChat ==
    /\ diets = {DietRow(1, "u1", 1, PFull1)}
    /\ nextId = 2
    /\ today = 1
    /\ users = InitUsers
    /\ chat_history = [u \in Users |-> NoHistory]
    /\ sessionRefresh \in BOOLEAN
    /\ nreq = 0
    /\ last = LastNone
    /\ gen = [u \in Users |-> GenIdle]
    /\ txn = TxnIdle
    /\ strk = StreakIdle

\* No request has come in yet, and nothing is being formatted or computed.
ChatIdle ==
    /\ diets = {}
    /\ nextId = 1
    /\ today = 1
    /\ users = InitUsers
    /\ chat_history = [u \in Users |-> NoHistory]
    /\ sessionRefresh = FALSE
    /\ nreq = 0
    /\ last = LastNone
    /\ gen = [u \in Users |-> GenIdle]
    /\ txn = TxnIdle
    /\ strk = StreakIdle

Init == InitChat /\ fmt = FmtIdle /\ calc = CalcIdle

Next ==
    \/ ChatEmpty
    \/ ChatUnauthenticated
    \/ ChatGenerate
    \/ ChatModify
    \/ ChatMetrics
    \/ ChatGeneral
    \/ Tick

Spec == Init /\ [][Next]_vars

\* The chat with accounts that are deleted from another session.
NextAccount == Next \/ DeleteAccount

SpecAccount == Init /\ [][NextAccount]_vars

\* The session after n answered General requests.
RECURSIVE HistoryAfter(_)
HistoryAfter(n) ==
    IF n = 0 THEN NoHistory
    ELSE AssignedInChat(HistoryAfter(n - 1), PlainMessage, ReplyContent(GwText))

\* The longest conversation a session starts from.
MaxTalk == 7

\* Sessions in the middle of a conversation, with the history and clear
\* endpoints.
InitHistory ==
    /\ diets = {DietRow(1, "u1", 1, PFull1)}
    /\ nextId = 2
    /\ today = 1
    /\ users = InitUsers
    /\ \E n \in {0, MaxTalk} :
          chat_history = [u \in Users |-> IF u = "u1" THEN HistoryAfter(n) ELSE NoHistory]
    /\ sessionRefresh \in BOOLEAN
    /\ nreq = 0
    /\ last = LastNone
    /\ gen = [u \in Users |-> GenIdle]
    /\ txn = TxnIdle
    /\ strk = StreakIdle
    /\ fmt = FmtIdle
    /\ calc = CalcIdle

NextHistory ==
    \/ ChatGenerate
    \/ ChatModify
    \/ ChatMetrics
    \/ ChatGeneral
    \/ GetHistory
    \/ ClearHistory

SpecHistory == InitHistory /\ [][NextHistory]_vars

\* The plans the two requests parsed, each one accepted by the check on
\* total_kcal.
RacePlans == {PFull1, PFull2, PCarbsAbsent}

\* Two Generate requests of u1 that have parsed their plans, over a table
\* with or without a diet of the day.
InitRace ==
    /\ diets \in {{}, {DietRow(1, "u1", 1, PFull1)}}
    /\ nextId = 2
    /\ today = 1
    /\ users = InitUsers
    /\ chat_history = [u \in Users |-> NoHistory]
    /\ sessionRefresh = FALSE
    /\ nreq = 0
    /\ last = LastNone
    /\ gen = [u \in Users |-> GenIdle]
    /\ fmt = FmtIdle
    /\ calc = CalcIdle
    /\ \E p1 \in RacePlans, p2 \in RacePlans :
          txn = [TxnIdle EXCEPT !.t = [p \in Reqs |->
                    Txn("parsed", {}, 0, IF p = "r1" THEN p1 ELSE p2)]]
    /\ strk = StreakIdle

NextRace == TxnDelete \/ TxnInsert \/ TxnCommit \/ Tick

SpecRace == InitRace /\ [][NextRace]_vars

\* The longest list of dates handed to the streak function.
MaxDates == 3

\* The days of the lists, around date.today() = 1: from three days back to
\* the day after.
StreakDays == -2..2

\* The streak function on its own, over every list of dates, with duplicates
\* and in any order.
InitStreak ==
    /\ diets = {}
    /\ nextId = 1
    /\ today = 1
    /\ users = InitUsers
    /\ chat_history = [u \in Users |-> NoHistory]
    /\ sessionRefresh = FALSE
    /\ nreq = 0
    /\ last = LastNone
    /\ gen = [u \in Users |-> GenIdle]
    /\ txn = TxnIdle
    /\ fmt = FmtIdle
    /\ calc = CalcIdle
    /\ \E n \in 0..MaxDates : \E l \in [1..n -> StreakDays] :
          strk = [StreakIdle EXCEPT !.pc = "start", !.dates_list = l]

NextStreak == StreakEnter \/ StreakLoop \/ StreakReturn

SpecStreak == InitStreak /\ [][NextStreak]_vars

\* The data gate of Generate on its own, over users that lack this or that.
GateUsers ==
    {NoDataUser,
     UserRow("female", 0, 0, 0, 0, 0, FALSE),
     UserRow("male", 0, 75, 0, 180, 30, TRUE),
     UserRow("female", 0, 0, 65, 170, 25, TRUE),
     UserRow("male", 80, 0, 0, 180, 0, TRUE),
     UserRow("female", 62, 0, 0, 0, 40, TRUE),
     UserRow("male", 0, 0, 90, 0, 35, FALSE)}

InitGate ==
    /\ diets = {DietRow(1, "u2", 1, PFull1)}
    /\ nextId = 2
    /\ today = 1
    /\ \E d \in GateUsers : users = [u \in Users |-> IF u = "u1" THEN FullUser ELSE d]
    /\ chat_history = [u \in Users |-> NoHistory]
    /\ sessionRefresh \in BOOLEAN
    /\ nreq = 0
    /\ last = LastNone
    /\ gen = [u \in Users |-> GenIdle]
    /\ txn = TxnIdle
    /\ strk = StreakIdle
    /\ fmt = FmtIdle
    /\ calc = CalcIdle

NextGate == ChatGenerate \/ Tick

SpecGate == InitGate /\ [][NextGate]_vars

\* format_diet_string on its own, over a bounded set of plans.
FormatSlotValues ==
    {SAbsent, SNull, SList(<<>>), SList(<<ItemA>>), SList(<<ItemA, ItemB>>),
     SList(<<ItemB, ItemNoName>>), SList(<<ItemScalar, ItemC>>)}

FormatPlans ==
    {EmptyPlan}
    \cup {Plan(b, l, SList(<<ItemC>>), s, kc, p, TNum(60), TNum(200), FALSE) :
            b \in FormatSlotValues, l \in FormatSlotValues,
            s \in {SAbsent, SList(<<ItemB>>)},
            kc \in {TAbsent, TNum(1800)}, p \in {TNull, TNum(120)}}

InitFormat ==
    /\ ChatIdle
    /\ calc = CalcIdle
    /\ \E plan \in FormatPlans : fmt = [pc |-> "start", plan |-> plan, i |-> 0, text |-> <<>>]

NextFormat == FormatEnter \/ FormatSlot \/ FormatTotals

SpecFormat == InitFormat /\ [][NextFormat]_vars

\* The calorie target on its own, over a bounded set of users: usual bodies,
\* and values small enough for the floor at the resting rate to apply.
InitCalc ==
    /\ ChatIdle
    /\ fmt = FmtIdle
    /\ \E weight \in {10, 60, 70, 80}, height \in {10, 165, 175, 180}, age \in {30, 45},
          gender \in {"male", "female", "unknown"}, metabolism \in {0, 2, 1500, 2200},
          avg_steps \in {0, 7000, 8000, 12000, 13000},
          fat_mass_goal \in BOOLEAN, muscle_mass_goal \in BOOLEAN :
          \* a resting rate is a positive quantity
          /\ BMR4(weight, height, age, gender, metabolism) > 0
          /\ calc = [CalcIdle EXCEPT !.pc = "bmr", !.weight = weight, !.height = height,
                    !.age = age, !.gender = gender, !.metabolism = metabolism,
                    !.avg_steps = avg_steps, !.fat_mass_goal = fat_mass_goal,
                    !.muscle_mass_goal = muscle_mass_goal]

NextCalc == CalcBMR \/ CalcTDEE \/ CalcTarget

SpecCalc == InitCalc /\ [][NextCalc]_vars

(* ------------------------------- claims ------------------------------- *)

RowsOf(store, user_id, date) == {r \in store : r.user_id = user_id /\ r.date = date}

\* What a row holds, read back the way _format_diet_summary reads it.
RowContent(row) ==
    [breakfast |-> json_loads(row.breakfast), lunch |-> json_loads(row.lunch),
     dinner |-> json_loads(row.dinner), snack |-> json_loads(row.snack),
     total_kcal |-> row.total_kcal, protein |-> row.protein, fat |-> row.fat,
     carbs |-> row.carbs]

\* What a diet_plan object says: an absent slot is the empty list, an absent
\* total is null.
PlanContent(plan) ==
    [breakfast |-> IF plan.breakfast.k = "absent" THEN SList(<<>>) ELSE plan.breakfast,
     lunch |-> IF plan.lunch.k = "absent" THEN SList(<<>>) ELSE plan.lunch,
     dinner |-> IF plan.dinner.k = "absent" THEN SList(<<>>) ELSE plan.dinner,
     snack |-> IF plan.snack.k = "absent" THEN SList(<<>>) ELSE plan.snack,
     total_kcal |-> IF plan.total_kcal.k = "absent" THEN TNull ELSE plan.total_kcal,
     protein |-> IF plan.protein.k = "absent" THEN TNull ELSE plan.protein,
     fat |-> IF plan.fat.k = "absent" THEN TNull ELSE plan.fat,
     carbs |-> IF plan.carbs.k = "absent" THEN TNull ELSE plan.carbs]

LastIs(scenario) == last.kind = "chat" /\ last.scenario = scenario

\* The last request was a ModifyOrAsk whose call returned a JSON object.
LastModifyObject == LastIs("modify") /\ last.gw.k = "obj"

\* The diet_plan of the last response is an object, nested or inside a string.
ObjectShaped(dp) == dp.k = "dict" \/ (dp.k = "str" /\ dp.enc = "dict")

\* The rows the last ModifyOrAsk request worked on, before and after.
TargetBefore == CurrentDiets(last.before, last.user)
TargetAfter(old) == {r \in diets : r.id = old.id}

\* C1: in every reachable state there is at most one DietRecord per
\* (user_id, date), whatever scenarios the requests so far went through.
C1_AtMostOnePerUserDate ==
    \A r1, r2 \in diets : (r1.user_id = r2.user_id /\ r1.date = r2.date) => r1 = r2

\* C1 witness: a Generate has replaced a record of the same user and day,
\* and the user holds records of two days.
C1_Witness ==
    /\ LastIs("generate")
    /\ RowsOf(last.before, last.user, last.date) # {}
    /\ RowsOf(diets, last.user, last.date) # RowsOf(last.before, last.user, last.date)
    /\ \E r \in diets : r.user_id = last.user /\ r.date # last.date

\* A Generate response the code accepts: an object whose diet_plan is a
\* non-empty object with a numeric total_kcal of at least 500.
AcceptedResponse(gw) ==
    /\ gw.k = "obj"
    /\ gw.dp.k = "dict"
    /\ ~IsEmptyDict(gw.dp.plan)
    /\ gw.dp.plan.total_kcal.k = "num"
    /\ gw.dp.plan.total_kcal.n >= 500

\* C2 as stated: after the Generate calls of a user on one day, once a
\* response has been parsed to a plan (one the database can hold), exactly one
\* DietRecord exists for that (user, date) and its contents equal the last
\* successfully-parsed plan.
C2_Original ==
    \A u \in Users :
        (gen[u].parsed /\ Storable(gen[u].pplan)) =>
            \E r \in diets : /\ RowsOf(diets, u, gen[u].date) = {r}
                             /\ RowContent(r) = PlanContent(gen[u].pplan)

\* C2 as amended: after the Generate calls of a user on one day at most one
\* DietRecord exists for that (user, date); once a call has been accepted and
\* committed, exactly one exists and it holds the plan of the last such call;
\* a call that is not accepted leaves the day's record as it was; every
\* Generate request that passes the data gate makes its own completion call.
C2_LastAcceptedPlanWins ==
    /\ \A u \in Users :
          /\ gen[u].n >= 1 => Cardinality(RowsOf(diets, u, gen[u].date)) <= 1
          /\ Complete(users[u]) => gen[u].calls = gen[u].n
          /\ gen[u].stored =>
                \E r \in diets : /\ RowsOf(diets, u, gen[u].date) = {r}
                                 /\ RowContent(r) = PlanContent(gen[u].splan)
    /\ LastIs("generate") =>
          /\ (Complete(users[last.user]) \/ ForceBasic(last.msg))
                => "generate" \in last.calls
          /\ (AcceptedResponse(last.gw) /\ last.commit_ok)
                => \E r \in diets :
                      /\ RowsOf(diets, last.user, last.date) = {r}
                      /\ RowContent(r) = PlanContent(last.gw.dp.plan)
                      /\ r \notin last.before
          /\ ~(AcceptedResponse(last.gw) /\ last.commit_ok)
                => diets = last.before

\* C2 witness: two Generate requests of one user in immediate succession, both
\* reaching the completion service, the second replacing the record the first
\* one stored.
C2_Witness ==
    /\ LastIs("generate")
    /\ gen[last.user].n = 2
    /\ gen[last.user].calls = 2
    /\ AcceptedResponse(last.gw)
    /\ \E old \in RowsOf(last.before, last.user, last.date) :
          /\ old.id >= 2
          /\ old \notin diets
          /\ RowContent(old) # PlanContent(last.gw.dp.plan)
    /\ Cardinality(RowsOf(diets, last.user, last.date)) = 1

C4_AnswerNeverMutates ==
    (LastModifyObject /\ last.gw.action = "answer") =>
        /\ diets = last.before
        /\ last.status = 200
        /\ last.gw.text.k = "str" => last.content = <<Line("text", last.gw.text.s, 0, 0)>>
        /\ last.gw.text.k = "null" => last.content = <<Line("null", "", 0, 0)>>
        /\ last.gw.text.k = "absent" => last.content = <<Line("text", "Gotovo.", 0, 0)>>

\* C4 witness: an answer that even carried a diet_plan object was returned
\* verbatim over an existing record.
C4_Witness ==
    /\ LastModifyObject
    /\ last.gw.action = "answer"
    /\ last.gw.dp.k = "dict"
    /\ TargetBefore # {}
    /\ last.content = <<Line("text", "T1", 0, 0)>>

SoftFailure == Msg("Ne udalos izmenit plan. Poprobujte pereformulirovat.")

\* C5: an update whose diet_plan is absent, null, an unparseable string or not
\* object-shaped after the second parse pass leaves the store unchanged and is
\* answered 200 with the soft-failure message; a string that parses to an
\* object has the effect the same object has when nested.
C5_MalformedPlanSafety ==
    (LastModifyObject /\ last.gw.action = "update") =>
        /\ ~ObjectShaped(last.gw.dp) =>
              /\ diets = last.before
              /\ last.content = SoftFailure
              /\ last.status = 200
        /\ (last.gw.dp.k = "str" /\ last.gw.dp.enc = "dict") =>
              LET nested == [last.gw EXCEPT !.dp = DPDict(last.gw.dp.plan)]
              IN /\ \A old \in TargetBefore :
                       diets = ModifyStore(last.before, old, nested, last.commit_ok)
                 /\ last.content = ModifyReply(nested, last.commit_ok).content
                 /\ (~IsEmptyDict(last.gw.dp.plan) /\ last.commit_ok) =>
                       \A old \in TargetBefore :
                          \E new \in TargetAfter(old) :
                             RowContent(new) = PlanContent(last.gw.dp.plan)

\* C5 witness: a diet_plan that came as a string holding a plan was applied to
\* the record.
C5_Witness ==
    /\ LastModifyObject
    /\ last.gw.action = "update"
    /\ last.gw.dp = DPStrDict(PBreakfastOnly)
    /\ diets # last.before
    /\ \E old \in TargetBefore :
          \E new \in TargetAfter(old) : json_loads(new.breakfast) = SList(<<ItemB>>)

\* C6: a ModifyOrAsk response that is no JSON, or JSON whose top level is no
\* object, is answered 200 with the "could not process" message and leaves the
\* store untouched; so does an empty response, with the "no reply" message.
C6_ParseFailureIsSoft ==
    LastIs("modify") =>
        /\ last.gw.k \in {"garbage", "nonobj"} =>
              /\ last.content = Msg("Proizoshla oshibka pri obrabotke zaprosa.")
              /\ last.role = "ai"
              /\ last.status = 200
              /\ diets = last.before
        /\ last.gw.k = "empty" =>
              /\ last.content = Msg("II ne otvetil.")
              /\ last.status = 200
              /\ diets = last.before

\* C6 witness: a top-level array or scalar came back for a user with a record.
C6_Witness ==
    /\ LastIs("modify")
    /\ last.gw.k = "nonobj"
    /\ TargetBefore # {}
    /\ diets = last.before

\* Exactly one slot of the plan is missing, null or no list; the other three
\* are lists.
OneBadSlot(plan, bad) ==
    /\ plan[bad].k \in {"absent", "null", "str"}
    /\ \A key \in SlotNames \ {bad} : plan[key].k = "list"

\* C7: an Update whose diet_plan has one slot missing, null or of a non-list
\* type and three valid lists persists the empty list in that slot and the
\* supplied lists in the other three.
C7_SlotFaultIsolation ==
    (/\ LastModifyObject
     /\ last.gw.action = "update"
     /\ last.gw.dp.k = "dict"
     /\ last.commit_ok) =>
        \A bad \in SlotNames :
            OneBadSlot(last.gw.dp.plan, bad) =>
                \A old \in TargetBefore :
                    \E new \in TargetAfter(old) :
                        /\ json_loads(new[bad]) = SList(<<>>)
                        /\ \A key \in SlotNames \ {bad} :
                              json_loads(new[key]) = last.gw.dp.plan[key]

\* C8: every slot column of every DietRecord holds a serialized list.
C8_SlotsHoldLists ==
    \A r \in diets :
        \A key \in SlotNames : json_loads(r[key]).k = "list"

\* The titles of the slots that hold a non-empty list, in the order
\* breakfast, lunch, dinner, snack.
RECURSIVE TitlesFrom(_, _)
TitlesFrom(plan, keys) ==
    IF keys = <<>> THEN <<>>
    ELSE (IF plan[Head(keys)].k = "list" /\ plan[Head(keys)].items # <<>>
          THEN <<Titles[Head(keys)]>> ELSE <<>>)
         \o TitlesFrom(plan, Tail(keys))

IsHeader(line) == line.t = "header"

RECURSIVE LineTexts(_)
LineTexts(lines) ==
    IF lines = <<>> THEN <<>> ELSE <<Head(lines).s>> \o LineTexts(Tail(lines))

\* Every slot is a non-empty list of objects that carry name and kcal.
FullyPopulated(plan) ==
    \A key \in SlotNames :
        /\ plan[key].k = "list"
        /\ plan[key].items # <<>>
        /\ \A i \in 1..Len(plan[key].items) :
              plan[key].items[i].d /\ {"name", "kcal"} \subseteq plan[key].items[i].has

\* C9: format_diet_string never fails to return: every step of it can be
\* taken, for the empty plan and for every plan of the set; {} gives the empty
\* string; the slot headers come in the order breakfast, lunch, dinner, snack;
\* a non-empty plan's text ends with the totals line; a fully populated plan's
\* text holds a line with the name and the kcal of every item.
C9_FormatterTotality ==
    /\ fmt.pc \in {"start", "loop"} => ENABLED NextFormat
    /\ fmt.pc = "done" =>
          /\ IsEmptyDict(fmt.plan) => fmt.text = <<>>
          /\ ~IsEmptyDict(fmt.plan) =>
                /\ LineTexts(SelectSeq(fmt.text, IsHeader))
                      = TitlesFrom(fmt.plan, <<"breakfast", "lunch", "dinner", "snack">>)
                /\ Len(fmt.text) >= 5
                /\ fmt.text[Len(fmt.text) - 3].t = "Itogo"
                /\ fmt.text[Len(fmt.text)].t = "U"
          /\ FullyPopulated(fmt.plan) =>
                \A key \in SlotNames :
                    \A i \in 1..Len(fmt.plan[key].items) :
                        \E j \in 1..Len(fmt.text) :
                            /\ fmt.text[j].t = "item"
                            /\ fmt.text[j].s = fmt.plan[key].items[i].name
                            /\ fmt.text[j].n = fmt.plan[key].items[i].kcal

\* C9 witness: a fully populated plan with two different first slots has been
\* formatted to the end.
C9_Witness ==
    /\ fmt.pc = "done"
    /\ FullyPopulated(fmt.plan)
    /\ fmt.plan.breakfast # fmt.plan.lunch
    /\ Len(fmt.text) > 8

\* The user of the example: male, 80 kg, 180 cm, 30 years, 8000 steps on
\* average, a fat-loss goal, no recorded metabolic rate.
ExampleUser ==
    /\ calc.pc = "done"
    /\ calc.gender = "male" /\ calc.weight = 80 /\ calc.height = 180 /\ calc.age = 30
    /\ calc.avg_steps = 8000 /\ calc.fat_mass_goal /\ calc.metabolism = 0

\* C10 as stated: for the example user BMR=1780, multiplier 1.375, TDEE=2447
\* and target_calories=2080.
C10_Original ==
    ExampleUser =>
        /\ calc.bmr4 = 4 * 1780
        /\ calc.factor = 1375
        /\ calc.tdee = 2447
        /\ calc.target_calories = 2080

\* C10 as amended: for the example user BMR=1780, multiplier 1.375, TDEE=2447
\* and target_calories = int(2447 * 0.85) = 2079, above the floor of 1780.
C10_CalorieTargetExample ==
    ExampleUser =>
        /\ calc.bmr4 = 4 * 1780
        /\ calc.factor = 1375
        /\ calc.tdee = 2447
        /\ calc.target_calories = 2079
        /\ 4 * calc.target_calories > calc.bmr4

\* C10 witness: the target of the example user has been computed.
C10_Witness == ExampleUser /\ calc.target_calories > 0

\* The goal adjustment of the other two branches: a muscle-gain goal alone
\* gives floor(TDEE * 1.10), no goal gives TDEE.
OtherGoals ==
    /\ (~calc.fat_mass_goal /\ calc.muscle_mass_goal) =>
          /\ 100 * calc.target_calories <= 110 * calc.tdee
          /\ 100 * (calc.target_calories + 1) > 110 * calc.tdee
    /\ (~calc.fat_mass_goal /\ ~calc.muscle_mass_goal) => calc.target_calories = calc.tdee

\* C11 as stated: with a fat-loss goal the target is never below the resting
\* rate, recorded or derived; a muscle-gain goal alone gives floor(TDEE*1.10),
\* no goal gives TDEE.
C11_Original ==
    calc.pc = "done" =>
        /\ calc.fat_mass_goal => 4 * calc.target_calories >= calc.bmr4
        /\ OtherGoals

\* C11 as amended: with a fat-loss goal the target is never below the resting
\* rate truncated to a whole number, int(BMR), so it is less than 1 kcal below
\* a fractional resting rate at worst and never below a whole one; it is
\* int(TDEE*0.85) when that is not below the resting rate; a muscle-gain goal
\* alone gives floor(TDEE*1.10), no goal gives TDEE.
C11_TargetFloor ==
    calc.pc = "done" =>
        /\ calc.fat_mass_goal =>
              /\ calc.target_calories >= calc.bmr4 \div 4
              /\ 4 * (calc.target_calories + 1) > calc.bmr4
              /\ calc.bmr4 % 4 = 0 => 4 * calc.target_calories >= calc.bmr4
              /\ 4 * ((calc.tdee * 85) \div 100) >= calc.bmr4
                    => calc.target_calories = (calc.tdee * 85) \div 100
        /\ OtherGoals

\* C11 witness: the floor applied, to a formula-derived resting rate that is
\* no whole number.
C11_Witness ==
    /\ calc.pc = "done"
    /\ calc.fat_mass_goal
    /\ calc.metabolism = 0
    /\ 4 * ((calc.tdee * 85) \div 100) < calc.bmr4
    /\ calc.bmr4 % 4 # 0
    /\ calc.target_calories = calc.bmr4 \div 4

\* The user lacks a weight everywhere, a height or an age.
Lacking(d) == (d.mweight = 0 /\ d.lweight = 0 /\ d.sweight = 0) \/ d.height = 0 \/ d.age = 0

HasLine(content, t, s) == \E i \in 1..Len(content) : content[i].t = t /\ content[i].s = s

\* C12: a Generate request of a user lacking weight (in the latest
\* measurement, the weight log and the profile), height or age, sent without
\* a force_basic keyword, is answered 200 with the request-for-data message
\* naming what is missing, makes no generation call, leaves the Diet table as
\* it was and stores the refusal as the last turn of the history.
C12_MissingDataGate ==
    (/\ LastIs("generate")
     /\ Lacking(users[last.user])
     /\ ~ForceBasic(last.msg)) =>
        LET d == users[last.user]
            h == chat_history[last.user]
        IN /\ last.status = 200 /\ last.role = "ai"
           /\ last.content[1] = Line("msg", "Dlya tochnogo rascheta mne ne hvataet dannyh", 0, 0)
           /\ (d.mweight = 0 /\ d.lweight = 0 /\ d.sweight = 0)
                 <=> HasLine(last.content, "missing", "ves")
           /\ d.height = 0 <=> HasLine(last.content, "missing", "rost")
           /\ d.age = 0 <=> HasLine(last.content, "missing", "vozrast")
           /\ last.gw = GwNotCalled
           /\ "generate" \notin last.calls
           /\ ~last.prompt.sent
           /\ diets = last.before
           /\ h.present
           /\ h.turns # <<>>
           /\ h.turns[Len(h.turns)] = Turn("assistant", last.content)

\* C12 witness: a user who has a weight and a height but no age, and a record
\* of today, was refused.
C12_Witness ==
    /\ LastIs("generate")
    /\ ~ForceBasic(last.msg)
    /\ users[last.user].age = 0
    /\ users[last.user].mweight # 0
    /\ users[last.user].height # 0
    /\ HasLine(last.content, "missing", "vozrast")
    /\ ~HasLine(last.content, "missing", "ves")
    /\ RowsOf(diets, last.user, last.date) # {}

\* The reply says that the plan is an estimate.
MarkedAsEstimate(content) == HasLine(content, "text", "Eto bazovyj racion")

\* Estimate mode: sex-specific defaults stand in for what the user lacks.
DefaultsSubstituted ==
    (/\ LastIs("generate")
     /\ Lacking(users[last.user])
     /\ ForceBasic(last.msg)) =>
        LET d == users[last.user]
            female == d.gender = "female"
        IN /\ last.prompt.sent
           /\ last.prompt.note
           /\ last.prompt.weight =
                 (IF d.mweight # 0 THEN d.mweight ELSE IF d.lweight # 0 THEN d.lweight
                  ELSE IF d.sweight # 0 THEN d.sweight ELSE IF female THEN 60 ELSE 70)
           /\ last.prompt.height =
                 (IF d.height # 0 THEN d.height ELSE IF female THEN 165 ELSE 175)
           /\ last.prompt.age = (IF d.age # 0 THEN d.age ELSE 30)

\* C13: with a force_basic keyword and a user lacking weight, height or age,
\* sex-specific defaults are substituted, and for every accepted response the
\* reply text marks the plan as an estimate.
C13_EstimateIsLabelled ==
    /\ DefaultsSubstituted
    /\ (/\ LastIs("generate")
        /\ Lacking(users[last.user])
        /\ ForceBasic(last.msg)
        /\ AcceptedResponse(last.gw)
        /\ last.commit_ok
        /\ last.gw.text.k = "str") =>
           MarkedAsEstimate(last.content)

Keywords == {"Generaciya", "Generat", "Dieta", "Pokazateli"}
Scenarios == {"generate", "modify", "metrics", "general"}

\* C14: a classification call that failed, or gave a string with none of the
\* keywords, routes to the General scenario; every classifier output routes to
\* exactly one of the four scenarios, the first one of the chain whose keyword
\* the string contains.
C14_ClassifierFailsOpen ==
    (last.kind = "chat" /\ last.cls.k # "notcalled") =>
        /\ last.scenario \in Scenarios
        /\ "classify" \in last.calls
        /\ last.status = 200
        /\ (last.cls.k = "none" \/ last.cls.kws \cap Keywords = {}) => last.scenario = "general"
        /\ last.cls.k = "str" =>
              /\ last.scenario = "generate"
                    <=> last.cls.kws \cap {"Generaciya", "Generat"} # {}
              /\ last.scenario = "modify"
                    <=> (last.cls.kws \cap {"Generaciya", "Generat"} = {}
                         /\ "Dieta" \in last.cls.kws)
              /\ last.scenario = "metrics"
                    <=> (last.cls.kws \cap {"Generaciya", "Generat", "Dieta"} = {}
                         /\ "Pokazateli" \in last.cls.kws)

\* C14 witness: the classification call failed and the General scenario
\* answered with the reply of its own call.
C14_Witness ==
    /\ last.kind = "chat"
    /\ last.cls.k = "none"
    /\ last.scenario = "general"
    /\ last.gw = GwText
    /\ last.content = <<Line("text", "T1", 0, 0)>>

\* C15: in every scenario, when the scenario's own completion call fails
\* (None), the response has status 200, its content is a message string, never
\* null, and no DietRecord is changed.
C15_GatewayFailureIsSoft ==
    (last.kind = "chat" /\ last.gw.k = "none") =>
        /\ last.status = 200
        /\ last.role = "ai"
        /\ last.content # <<>>
        /\ \A i \in 1..Len(last.content) : last.content[i].t # "null"
        /\ diets = last.before

\* C16: a request with an empty message is answered 400 and a request without
\* a session user id 401, each with its own message; the step that answers so
\* makes no completion call, leaves the Diet table and every session's
\* conversation history as they were.
C16_RejectedEarly ==
    [][(nreq' # nreq /\ (last'.status # 200 \/ last'.user = "")) =>
          /\ last'.status \in {400, 401}
          /\ last'.status = 400 =>
                (last'.msg = "" /\ last'.role = "error"
                 /\ last'.content = Msg("Pustoe soobshenie"))
          /\ last'.status = 401 =>
                (last'.msg # "" /\ last'.content = Msg("Pozhalujsta, avtorizujtes."))
          /\ last'.calls = {}
          /\ last'.gw = GwNotCalled
          /\ last'.cls = NoCls
          /\ diets' = diets
          /\ nextId' = nextId
          /\ chat_history' = chat_history]_vars

\* C16 witness: a request without a user id was answered 401 while a session
\* held a conversation and the table a record.
C16_Witness ==
    /\ last.kind = "chat"
    /\ last.status = 401
    /\ last.calls = {}
    /\ \E u \in Users : chat_history[u].turns # <<>>
    /\ diets # {}

\* The body is chat-shaped: a role and a content that is a string.
ChatShaped ==
    /\ last.role \in {"ai", "error"}
    /\ last.content # <<>>
    /\ \A i \in 1..Len(last.content) : last.content[i].t # "null"

\* C17: every chat request with a non-empty message and a session user id is
\* answered 200 with a chat-shaped body, whatever the classifier and the
\* completion calls return and whatever the store holds, also when the user
\* row, the body analysis or the diet of the session's user is gone.
C17_AlwaysChatShaped ==
    (last.kind = "chat" /\ last.msg # "" /\ last.user # "") =>
        /\ last.status = 200
        /\ ChatShaped

\* The stored history of the user of the last request ends with the message
\* of the request and then the reply that was returned.
EndsWithExchange ==
    \E t \in {chat_history[last.user].turns} :
        /\ Len(t) >= 2
        /\ t[Len(t) - 1] = UserTurn(last.msg)
        /\ t[Len(t)] = Turn("assistant", last.content)

\* C18: after every chat request answered 200, on every branch of every
\* scenario, the two most recent turns of the session's history are the
\* user's message and, right after it, the reply that was returned.
C18_ExchangeRecorded ==
    (last.kind = "chat" /\ last.status = 200 /\ last.user # "") => EndsWithExchange

\* C19: whatever chat, history and clear requests a session has made, its
\* stored history holds at most 15 turns; a clear request leaves no history
\* and the history endpoint returns what is stored, so an empty list after a
\* clear.
C19_HistoryBounded ==
    /\ \A u \in Users : Len(chat_history[u].turns) <= HistoryLimit
    /\ last.kind = "clear" => chat_history[last.user].turns = <<>>
    /\ last.kind = "history" => last.content = chat_history[last.user].turns

\* Both requests have committed and built their rows for the same day.
BothCommitted ==
    /\ \A p \in Reqs : txn.t[p].pc = "committed"
    /\ txn.t["r1"].date = txn.t["r2"].date

\* C20: when two Generate requests of one user for one date run at the same
\* time, in every interleaving of their deletes, inserts and commits the table
\* ends with exactly one diet of that user and date, holding the plan of the
\* request that committed last.
C20_LastWriteWins ==
    BothCommitted =>
        \E rows \in {{r \in diets : r.user_id = "u1" /\ r.date = txn.t["r1"].date}} :
            /\ Cardinality(rows) = 1
            /\ \A r \in rows :
                  r = DietRow(r.id, "u1", r.date, txn.t[txn.order[2]].plan)

\* The user of the last request had no diet when the request came in.
HadNoDiet == ~\E r \in last.before : r.user_id = last.user

UnusablePlan(gw) ==
    \/ gw.k = "garbage"
    \/ /\ gw.k = "obj"
       /\ \/ gw.dp.k # "dict"
          \/ gw.dp.plan.total_kcal.k \in {"absent", "null"}
          \/ /\ gw.dp.plan.total_kcal.k = "num"
             /\ gw.dp.plan.total_kcal.n < 500

GenerateErrors ==
    {Msg("Oshibka generacii: exception"),
     Msg("Oshibka generacii: Sgenerirovan nekorrektnyj plan.")}

\* C22: a Generate whose completion answer does not parse, has no diet_plan,
\* has a diet_plan that is no object, or has a total_kcal that is absent, null
\* or below 500, deletes and inserts nothing, so a record of the same date
\* keeps its contents, and is answered 200 with an error message.
C22_ImplausiblePlanRejected ==
    (LastIs("generate") /\ UnusablePlan(last.gw)) =>
        /\ last.status = 200
        /\ last.role = "ai"
        /\ last.content \in GenerateErrors
        /\ diets = last.before

\* A plan of 400 kcal came back for a user who has a diet of the day.
C22_Witness ==
    /\ LastIs("generate")
    /\ last.gw = GwObj("absent", TextT, DPDict(PLowKcal))
    /\ \E r \in last.before : r.user_id = last.user /\ r.date = last.date
    /\ diets = last.before

\* The plan an Update applied, after the second parse pass.
UpdatePlan == SecondPass(last.gw.dp).plan

\* A total of the plan is absent or is no number.
SomeTotalUnusable(plan) == \E i \in 1..4 : plan[Totals[i]].k # "num"

\* The value the claim expects in a totals column.
TotalOrZero(plan, key) == IF plan[key].k = "num" THEN plan[key] ELSE TNum(0)

\* C23: after an Update whose diet_plan is an object with a total
\* (total_kcal, protein, fat, carbs) absent or not a number, the record of
\* the user holds a numeric zero in that column, the other totals as
\* supplied and the four slots as supplied.
C23_TotalsFallBackToZero ==
    (LastIs("modify") /\ ReachesCommit(last.gw) /\ SomeTotalUnusable(UpdatePlan)) =>
        \E row \in diets :
            /\ row.user_id = last.user
            /\ \A i \in 1..4 : row[Totals[i]] = TotalOrZero(UpdatePlan, Totals[i])
            /\ \A i \in 1..4 : row[Slots[i]] = json_dumps(GetSlot(UpdatePlan, Slots[i]))

\* The keyword test of one branch of the chain.
KeywordTest(scenario, kws) ==
    IF scenario = "generate" THEN "Generaciya" \in kws \/ "Generat" \in kws
    ELSE IF scenario = "modify" THEN "Dieta" \in kws
    ELSE "Pokazateli" \in kws

\* The three tests in the order of the source.
ChainOrder == <<"generate", "modify", "metrics">>

\* The orders in which the three tests can be evaluated.
TestOrders ==
    {o \in [1..3 -> {"generate", "modify", "metrics"}] : \A i, j \in 1..3 : i # j => o[i] # o[j]}

\* The scenario a chain selects when its tests are evaluated in the order o.
RouteInOrder(kws, o) ==
    IF KeywordTest(o[1], kws) THEN o[1]
    ELSE IF KeywordTest(o[2], kws) THEN o[2]
    ELSE IF KeywordTest(o[3], kws) THEN o[3]
    ELSE "general"

\* The last request went through the classification.
WasRouted == last.kind = "chat" /\ last.cls.k # "notcalled"

\* C24 as stated: for every classifier output, also one that holds the
\* keywords of several labels, the scenario that handled the request is the
\* one selected under every order of evaluation of the three keyword tests.
C24_Original ==
    WasRouted =>
        \A o \in TestOrders : RouteInOrder(ClassifierText(last.cls), o) = last.scenario

\* The labels whose keyword test matches the classifier output.
MatchedLabels(kws) == {s \in {"generate", "modify", "metrics"} : KeywordTest(s, kws)}

\* C24: the scenario that handles a request is the first one in the order
\* Generate, ModifyOrAsk, Metrics whose keyword test matches the classifier
\* output, General when none does; when the keywords of at most one label
\* are in the output, every order of evaluation of the tests selects it.
C24_RoutingByPriority ==
    WasRouted =>
        /\ last.scenario = RouteInOrder(ClassifierText(last.cls), ChainOrder)
        /\ Cardinality(MatchedLabels(ClassifierText(last.cls))) <= 1 =>
              \A o \in TestOrders : RouteInOrder(ClassifierText(last.cls), o) = last.scenario

\* An output with the keywords of two labels went to the earlier one.
C24_Witness ==
    /\ WasRouted
    /\ last.cls.kws = {"Dieta", "Pokazateli"}
    /\ last.scenario = "modify"

\* The length of the run of consecutive days of S that ends at the day end.
RECURSIVE RunLength(_, _)
RunLength(S, end) == IF end \in S THEN 1 + RunLength(S \ {end}, end - 1) ELSE 0

\* What the claim expects of a list of dates on the day now.
ExpectedStreak(dates_list, now) ==
    IF dates_list = <<>> THEN 0
    ELSE IF \A d \in Days(dates_list) : d < now - 1 THEN 0
    ELSE RunLength(Days(dates_list), IF now \in Days(dates_list) THEN now ELSE now - 1)

\* C25: _calculate_consecutive_days returns 0 for an empty list and for a
\* list whose latest date is before yesterday; for every other list, with
\* duplicates and future dates ignored, it returns the length of the run of
\* consecutive days of the list that ends today when today is in the list and
\* yesterday when it is not.
C25_StreakIsRunLength ==
    strk.pc = "done" => strk.result = ExpectedStreak(strk.dates_list, today)

\* The record r is a record with the most recent date among those of user u.
LatestOf(store, r, u) ==
    /\ r.user_id = u
    /\ \A x \in store : x.user_id = u => x.date <= r.date

C27_UserIsolation ==
    [][(nreq' # nreq /\ last'.user # "") =>
          /\ {r \in diets' : r.user_id # last'.user} = {r \in diets : r.user_id # last'.user}
          /\ \A r \in last'.prompt.diet : r \in diets /\ r.user_id = last'.user]_vars

\* An Update of one user's diet, summarised in the prompt, while another
\* user has a diet too.
C27_Witness ==
    /\ LastIs("modify")
    /\ last.prompt.diet # {}
    /\ diets # last.before
    /\ \E r \in diets : r.user_id # last.user

============================================================================
